---- MODULE Spec2Model ----
(***************************************************************************)
(* A model of the Hugging Face inference client of go-ai-huggingface:      *)
(* AIRequest.Validate, the operations of HuggingFaceService (GenerateText, *)
(* AnalyzeSentiment, SummarizeText, ValidateModel) over the retry loop of  *)
(* makeRequest, the HTTP handlers of AIHandler in front of them, the       *)
(* RateLimiter middleware, and LoadConfig and Config.Validate at the start *)
(* of the program.  A behaviour of the client is one logical call.         *)
(*                                                                         *)
(* Strings that the code measures or compares (prompt, generated text) are *)
(* sequences of one-character strings, so len() is Len().  Temperatures    *)
(* are given in tenths (10 stands for 1.0).  Time is counted in ticks of   *)
(* the retry timer.                                                        *)
(***************************************************************************)
EXTENDS Integers, Sequences, FiniteSets, TLC

VARIABLES
    cfg,        \* HuggingFaceConfig: RetryAttempts, RetryDelay (read-only)
    req,        \* the AIRequest handed to GenerateText
    pc,         \* position of the call
    attempt,    \* the loop variable of makeRequest
    lastErr,    \* makeRequest's lastErr
    ctxErr,     \* ctx.Err(): "nil" until the context is cancelled
    timer,      \* ticks left on the time.After timer of the current wait
    respStatus, \* resp.StatusCode while the response's body is being read, else 0
    inflight,   \* attempts whose HTTP exchange is open (Do called, body not closed)
    mrResult,   \* what makeRequest returned: [body, err]
    gtResult,   \* what GenerateText returned: [resp, err]
    logs,       \* the lines handed to the logger, in order
    doCalls,    \* history: number of httpClient.Do calls
    netCalls,   \* history: number of Do calls that reached the network
    hist,       \* history: the outcome of every finished attempt, in order
    lastBody,   \* history: the body read by the latest attempt that read one
    waits,      \* history: ticks spent in the select before each retry
    cancelAt,   \* history: where the call was when the context was cancelled
    op,         \* the operation called: "generate", "complete", "sentiment", "summarize", "validate"
    arg,        \* the arguments of AnalyzeSentiment / SummarizeText: [Text, MaxLength]
    upstream,   \* which bodies the upstream API may answer with (read-only)
    hfReq,      \* the HuggingFaceRequest handed to makeRequest
    asResult,   \* what AnalyzeSentiment returned: [resp, err]
    stResult,   \* what SummarizeText returned: [resp, err]
    httpReq,    \* the HTTP request an AIHandler method is serving
    responses,  \* the HTTP responses written for httpReq, in order
    svcCalls,   \* history: number of calls the handler made to the AI service
    requestsPerMinute, \* RateLimiter's argument
    clock,      \* time.Now(), in ticks
    requests,   \* RateLimiter's map: client address -> recorded timestamps
    rlReq,      \* the requests passing through RateLimiter, each with its position
    mu,         \* RateLimiter's mutex: the request holding it, or 0
    sent,       \* history: the HTTP request handed to httpClient.Do by each attempt
    modelName,  \* the argument of ValidateModel
    vmResult,   \* what ValidateModel returned: [err, called]
    env,        \* the environment variables LoadConfig reads
    loaded,     \* what LoadConfig returned: [cfg, err]
    valid       \* what Config.Validate returned, or that it has not been called

\* the state of the rate limiter
rlVars == <<requestsPerMinute, clock, requests, rlReq, mu>>

\* what the steps of GenerateText and makeRequest leave alone
outerVars == <<op, arg, upstream, asResult, stResult, httpReq, responses,
               svcCalls, rlVars>>

\* the state of ValidateModel and of the start of the program
sideVars == <<modelName, vmResult, env, loaded, valid>>

vars == <<cfg, req, pc, attempt, lastErr, ctxErr, timer, respStatus, inflight,
          mrResult, gtResult, logs, doCalls, netCalls, hist, lastBody, waits,
          cancelAt, hfReq, outerVars, sent, sideVars>>

-----------------------------------------------------------------------------
(* Bounds of the model *)

MaxRetry == 2   \* largest configured RetryAttempts
NegRetry == 1   \* RetryAttempts ranges down to -NegRetry (getEnvAsInt accepts it)
MaxDelay == 1   \* largest configured RetryDelay, in ticks
MaxPrompt == 2  \* longest prompt given to the normaliser
MaxText == 3    \* longest text an upstream element carries
MaxResults == 3 \* most entries of an inner array of a sentiment answer
NumRequests == 4 \* requests sent through the rate limiter
MaxClock == 2   \* last tick of the rate limiter's clock
MaxRPM == 2     \* largest requestsPerMinute

-----------------------------------------------------------------------------
(* Values *)

Absent == "<absent>"

\* A response body.  k: "text" (not JSON), "obj" (a JSON object; error and
\* message are its string fields of those names, or Absent), "arr" (a JSON
\* array of objects, the empty array included; items are the objects),
\* "arr2" (a non-empty JSON array of arrays of objects; items are the arrays).
Body(k, e, m, items) == [k |-> k, error |-> e, message |-> m, items |-> items]
NoBody == Body("none", Absent, Absent, <<>>)

\* A JSON object as HuggingFaceResponse decodes it: a field the object does
\* not carry is the zero value.  Scores are given in hundredths.
HFResponse(g, sc, l, sm) ==
    [generated_text |-> g, score |-> sc, label |-> l, summary_text |-> sm]
Gen(t) == HFResponse(t, 0, "", <<>>)
Sent(l, sc) == HFResponse(<<>>, sc, l, <<>>)
Summ(t) == HFResponse(<<>>, 0, "", t)

Text1 == <<"a", "b">>
Text2 == <<"b">>

UpstreamBodies ==
    {Body("text", Absent, Absent, <<>>)}
    \cup {Body("obj", e, m, <<>>) : e \in {Absent, "e1"}, m \in {Absent, "m1"}}
    \cup {Body("arr", Absent, Absent, it) :
             it \in {<<>>, <<Gen(Text1)>>, <<Gen(Text1), Gen(Text2)>>}}

Statuses == {200, 201, 400, 404, 499, 500}

CtxCauses == {"context canceled", "context deadline exceeded"}
NetCause == "network"

Err(kind, code, cause, e, m, raw) ==
    [kind |-> kind, code |-> code, cause |-> cause, error |-> e, message |-> m,
     raw |-> raw]
NoErr == Err("nil", 0, "", "", "", NoBody)
\* &ErrorResponse{Code: 400, Message: msg, Type: "validation_error"}
ValidationError(msg) == Err("validation_error", 400, "", "", msg, NoBody)
\* ctx.Err()
CtxError(cause) == Err("ctx", 0, cause, "", "", NoBody)
\* fmt.Errorf("HTTP request failed: %w", err)
HTTPRequestFailed(cause) == Err("http_request_failed", 0, cause, "", "", NoBody)
\* fmt.Errorf("failed to read response: %w", err)
ReadFailed(cause) == Err("read_failed", 0, cause, "", "", NoBody)
\* fmt.Errorf("failed to parse response: %w", err)
ParseError == Err("parse_error", 0, "", "", "", NoBody)
\* fmt.Errorf("no response generated")
NoResponseError == Err("no_response", 0, "", "", "", NoBody)
\* fmt.Errorf("failed to parse sentiment response: %w", err)
SentimentParseError == Err("sentiment_parse_error", 0, "", "", "", NoBody)
\* fmt.Errorf("no sentiment analysis result")
NoSentimentError == Err("no_sentiment", 0, "", "", "", NoBody)
\* fmt.Errorf("failed to parse summarization response: %w", err)
SummaryParseError == Err("summary_parse_error", 0, "", "", "", NoBody)
\* fmt.Errorf("no summarization result")
NoSummaryError == Err("no_summary", 0, "", "", "", NoBody)

NoResp == [choices |-> <<>>,
           usage |-> [prompt_tokens |-> 0, completion_tokens |-> 0, total_tokens |-> 0],
           ok |-> FALSE]

Configs == [RetryAttempts : (0 - NegRetry)..MaxRetry, RetryDelay : 0..MaxDelay]

\* The keys of the maps of a payload.  A map is a function on them; a key
\* the map does not hold is Absent, a value is the text JSON writes for it.
ParamKeys == {"max_new_tokens", "temperature", "top_p", "wait_for_model",
              "do_sample", "max_length", "min_length"}
NoParams == [k \in ParamKeys |-> Absent]

Requests == [Prompt : {<<>>, <<"a">>},
             Model : {"", "gpt2"},
             MaxTokens : {-1, 0, 1},
             Temperature : {-1, 0, 5, 10, 11},
             TopP : {9},
             Parameters : {NoParams}]

Ops == {"generate", "complete", "sentiment", "summarize"}

Alphabet == {"a", "b"}
\* the strings over Alphabet of length at most n
Strings(n) == UNION {[1..k -> Alphabet] : k \in 0..n}
\* the sequences of at most two elements of S
UpToTwo(S) == {<<>>} \cup {<<x>> : x \in S} \cup {<<x, y>> : x \in S, y \in S}

\* the arguments of AnalyzeSentiment (text) and SummarizeText (text, maxLength)
Arg(text, maxLength) == [Text |-> text, MaxLength |-> maxLength]
NoArg == Arg(<<>>, 0)

NoSentiment == [text |-> <<>>, sentiment |-> "", score |-> 0, confidence |-> 0,
                ok |-> FALSE]
NoSummary == [original_text |-> <<>>, summary |-> <<>>, compression |-> <<0, 1>>,
              ok |-> FALSE]

HFRequest(inputs, parameters, options) ==
    [inputs |-> inputs, parameters |-> parameters, options |-> options]
NoHFRequest == HFRequest(<<>>, NoParams, NoParams)

-----------------------------------------------------------------------------
(* AIRequest.Validate *)

\* Validate without its model check
ValidateNoModelCheck(r) ==
    IF r.Prompt = <<>> THEN ValidationError("prompt is required")
    ELSE IF r.MaxTokens < 0 THEN ValidationError("max_tokens must be positive")
    ELSE IF r.Temperature < 0 \/ r.Temperature > 10
         THEN ValidationError("temperature must be between 0 and 1")
    ELSE NoErr

\* Validate asking for max_tokens > 0, as its message would have it
ValidateStrictMaxTokens(r) ==
    IF r.Prompt = <<>> THEN ValidationError("prompt is required")
    ELSE IF r.Model = "" THEN ValidationError("model is required")
    ELSE IF r.MaxTokens <= 0 THEN ValidationError("max_tokens must be positive")
    ELSE IF r.Temperature < 0 \/ r.Temperature > 10
         THEN ValidationError("temperature must be between 0 and 1")
    ELSE NoErr

Validate(r) ==
    IF r.Prompt = <<>> THEN ValidationError("prompt is required")
    ELSE IF r.Model = "" THEN ValidationError("model is required")
    ELSE IF r.MaxTokens < 0 THEN ValidationError("max_tokens must be positive")
    ELSE IF r.Temperature < 0 \/ r.Temperature > 10
         THEN ValidationError("temperature must be between 0 and 1")
    ELSE NoErr

-----------------------------------------------------------------------------
(* Pieces of makeRequest *)

\* the for condition with < in place of <=
LoopCondExclusive(a, n) == a < n

\* the for condition: attempt <= s.config.RetryAttempts
LoopCond(a, n) == a <= n

\* a success test that takes every 2xx status
IsStatusAny2xx(status) == status >= 200 /\ status < 300

\* resp.StatusCode == http.StatusOK
IsStatusOK(status) == status = 200

\* the client-error test with > in place of >=
IsClientErrorAbove400(status) == status > 400 /\ status < 500

\* resp.StatusCode >= 400 && resp.StatusCode < 500
IsClientError(status) == status >= 400 /\ status < 500

\* a wait that does not listen to ctx.Done(), as time.Sleep would
SelectTimerOnly(ctxDone, timerFired) == IF timerFired THEN {"timer"} ELSE {}

\* The cases of the select that can be taken, given which channels are ready.
SelectCases(ctxDone, timerFired) ==
    (IF ctxDone THEN {"ctx"} ELSE {}) \cup (IF timerFired THEN {"timer"} ELSE {})

\* json.Unmarshal(body, &hfError) == nil: the body is a JSON object whose
\* error and message fields, where present, are strings.
UnmarshalsAsError(body) == body.k = "obj"

Field(x) == IF x = Absent THEN "" ELSE x

\* lastErr for a response with a status other than 200
APIError(status, body) ==
    IF UnmarshalsAsError(body)
    THEN Err("api_error", status, "", Field(body.error), Field(body.message), NoBody)
    ELSE Err("api_error_raw", status, "", "", "", body)

\* the body left open until makeRequest returns, as a defer in the loop would
CloseBodyDeferred(open, a) == open

\* resp.Body.Close() right after io.ReadAll
CloseBody(open, a) == open \ {a}

Log(msg, a) == [msg |-> msg, attempt |-> a, model |-> ""]

-----------------------------------------------------------------------------
(* Pieces of GenerateText *)

\* a / b as Go computes it for b > 0: the quotient is truncated toward zero
GoDiv(a, b) == IF a >= 0 THEN a \div b ELSE 0 - ((0 - a) \div b)

\* the Parameters map GenerateText starts from
GenerationParameters(r) ==
    [k \in ParamKeys |->
        CASE k = "max_new_tokens" -> ToString(r.MaxTokens)
          [] k = "temperature" -> ToString(r.Temperature)
          [] k = "top_p" -> ToString(r.TopP)
          [] OTHER -> Absent]

\* the Options map of GenerateText
GenerationOptions ==
    [k \in ParamKeys |-> IF k = "wait_for_model" THEN "true" ELSE Absent]

\* a merge that keeps the value a key already has
MergeKeepBase(base, extra) ==
    [k \in ParamKeys |-> IF base[k] # Absent THEN base[k] ELSE extra[k]]

\* for k, v := range req.Parameters { hfReq.Parameters[k] = v }
Merge(base, extra) ==
    [k \in ParamKeys |-> IF extra[k] # Absent THEN extra[k] ELSE base[k]]

\* hfReq as GenerateText hands it to makeRequest
GenerationPayload(r) ==
    HFRequest(r.Prompt, Merge(GenerationParameters(r), r.Parameters),
              GenerationOptions)

\* the GeneratedText fields of hfResponses
GeneratedTexts(items) == [i \in 1..Len(items) |-> items[i].generated_text]

IsPrefix(p, s) == Len(p) <= Len(s) /\ SubSeq(s, 1, Len(p)) = p

RECURSIVE TrimEveryPrefix(_, _)
\* a trim that takes off every leading copy of the prefix
TrimEveryPrefix(s, p) ==
    IF p # <<>> /\ IsPrefix(p, s)
    THEN TrimEveryPrefix(SubSeq(s, Len(p) + 1, Len(s)), p)
    ELSE s

\* strings.TrimPrefix(s, prefix)
TrimPrefix(s, p) == IF IsPrefix(p, s) THEN SubSeq(s, Len(p) + 1, Len(s)) ELSE s

\* a decode that takes a body that is not JSON for an empty array
UnmarshalsLeniently(body) == body.k \in {"arr", "text"}

\* json.Unmarshal(response, &hfResponses) == nil for []HuggingFaceResponse
UnmarshalsAsResponses(body) == body.k = "arr"

Choice(i, text) == [index |-> i, text |-> text, finish_reason |-> "stop"]

RECURSIVE SumTokensOfUpstreamText(_, _, _)
RECURSIVE SumTokensOfTextOnly(_, _, _)
RECURSIVE SumTokens(_, _, _)
\* the sum taken over the texts as the upstream sent them
SumTokensOfUpstreamText(prompt, items, i) ==
    IF i > Len(items) THEN 0
    ELSE ((Len(prompt) + Len(items[i])) \div 4)
         + SumTokensOfUpstreamText(prompt, items, i + 1)

\* the sum taken over the texts without the prompt
SumTokensOfTextOnly(prompt, items, i) ==
    IF i > Len(items) THEN 0
    ELSE (Len(TrimPrefix(items[i], prompt)) \div 4)
         + SumTokensOfTextOnly(prompt, items, i + 1)

\* totalTokens after the loop over hfResponses[i..]
SumTokens(prompt, items, i) ==
    IF i > Len(items) THEN 0
    ELSE ((Len(prompt) + Len(TrimPrefix(items[i], prompt))) \div 4)
         + SumTokens(prompt, items, i + 1)

\* the completion count taken off the prompt's length, not its tokens
CompletionTokensOffLength(total, prompt) == total - Len(prompt)

\* CompletionTokens: totalTokens - len(req.Prompt)/4
CompletionTokens(total, prompt) == total - (Len(prompt) \div 4)

BuildResponse(r, items) ==
    LET total == SumTokens(r.Prompt, items, 1)
    IN [choices |-> [i \in 1..Len(items) |->
                        Choice(i - 1, TrimPrefix(items[i], r.Prompt))],
        usage |-> [prompt_tokens |-> Len(r.Prompt) \div 4,
                   completion_tokens |-> CompletionTokens(total, r.Prompt),
                   total_tokens |-> total],
        ok |-> TRUE]

-----------------------------------------------------------------------------
(* Pieces of AnalyzeSentiment and SummarizeText *)

\* json.Unmarshal(response, &hfResponses) == nil for [][]HuggingFaceResponse
UnmarshalsAsNested(body) ==
    body.k = "arr2" \/ (body.k = "arr" /\ body.items = <<>>)

\* len(hfResponses) == 0 || len(hfResponses[0]) == 0
NoSentimentResult(outer) == Len(outer) = 0 \/ Len(outer[1]) = 0

RECURSIVE BestResultLastWins(_, _, _)
RECURSIVE BestResult(_, _, _)
\* the scan with >= in place of >
BestResultLastWins(results, i, best) ==
    IF i > Len(results) THEN best
    ELSE BestResultLastWins(results, i + 1,
                            IF results[i].score >= best.score THEN results[i] ELSE best)

\* bestResult after the loop over hfResponses[0][i..]
BestResult(results, i, best) ==
    IF i > Len(results) THEN best
    ELSE BestResult(results, i + 1,
                    IF results[i].score > best.score THEN results[i] ELSE best)

SentimentResponse(text, best) ==
    [text |-> text, sentiment |-> best.label, score |-> best.score,
     confidence |-> best.score, ok |-> TRUE]

\* the Parameters map of SummarizeText
SummaryParameters(maxLength) ==
    [k \in ParamKeys |->
        CASE k = "max_length" -> ToString(maxLength)
          [] k = "min_length" -> ToString(GoDiv(maxLength, 4))
          [] OTHER -> Absent]

\* a summary joining every element of the array
SummaryOfAll(items) ==
    IF Len(items) = 1 THEN items[1].summary_text
    ELSE items[1].summary_text \o items[Len(items)].summary_text

\* summary := hfResponses[0].SummaryText
SummaryOf(items) == items[1].summary_text

\* The compression is a quotient of two float64: <<n, d>> stands for n / d.
SummaryResponse(text, items) ==
    [original_text |-> text, summary |-> SummaryOf(items),
     compression |-> <<Len(SummaryOf(items)), Len(text)>>, ok |-> TRUE]

-----------------------------------------------------------------------------
(* Inputs and upstream answers for the normalisers *)

\* generation requests that pass Validate, with prompts of every shape
\* prompts of four characters and more, which count as a token
LongPrompts == {<<"a", "a", "b", "a">>, <<"a", "b", "a", "b", "a">>}

NormRequests ==
    [Prompt : (Strings(MaxPrompt) \ {<<>>}) \cup LongPrompts,
     Model : {"gpt2", "my-org/custom"},
     MaxTokens : {1},
     Temperature : {5},
     TopP : {9},
     Parameters : {NoParams}]

\* generation answers: every array of at most two texts
GenBodies ==
    {Body("text", Absent, Absent, <<>>)}
    \cup {Body("arr", Absent, Absent, it) :
             it \in UpToTwo({Gen(t) : t \in Strings(MaxText)})}

\* the extras a caller may put in AIRequest.Parameters
CallerParams ==
    {p \in [ParamKeys -> {Absent, "c"}] :
        \A k \in {"max_length", "min_length"} : p[k] = Absent}

\* generation requests with caller parameters
ParamRequests ==
    [Prompt : {<<"a">>},
     Model : {"gpt2"},
     MaxTokens : {0, 1},
     Temperature : {5},
     TopP : {9},
     Parameters : CallerParams]

SentimentEntries == {Sent(l, sc) : l \in {"NEG", "POS"}, sc \in {10, 90}}

\* sentiment answers: a first inner array of up to MaxResults entries, alone
\* or followed by a second inner array
SentimentBodies ==
    {Body("text", Absent, Absent, <<>>), Body("arr", Absent, Absent, <<>>)}
    \cup {Body("arr2", Absent, Absent, <<in>> \o rest) :
             in \in UNION {[1..k -> SentimentEntries] : k \in 0..MaxResults},
             rest \in {<<>>, << <<Sent("NEU", 99)>> >>}}

\* summarization answers: every array of at most two summaries
SummaryBodies ==
    {Body("text", Absent, Absent, <<>>)}
    \cup {Body("arr", Absent, Absent, it) :
             it \in UpToTwo({Summ(t) : t \in Strings(MaxText)})}

\* answers of every shape the three normalisers tell apart
HTTPBodies ==
    UpstreamBodies
    \cup {Body("arr2", Absent, Absent, it) :
             it \in {<< <<>> >>, << <<Sent("NEG", 10), Sent("POS", 90)>> >>}}
    \cup {Body("arr", Absent, Absent, <<Summ(Text2)>>)}

\* the bodies the upstream API answers with
Answers(u) ==
    CASE u = "generation" -> GenBodies
      [] u = "sentiment" -> SentimentBodies
      [] u = "summarization" -> SummaryBodies
      [] u = "mixed" -> HTTPBodies
      [] OTHER -> UpstreamBodies

SummaryArgs == {Arg(t, n) : t \in {<<"a">>, <<"a", "b">>}, n \in {-1, 0, 130}}

-----------------------------------------------------------------------------
(* The request of an attempt, the retry log line, ValidateModel *)

\* a log line that names a model
LogModel(msg, a, m) == [msg |-> msg, attempt |-> a, model |-> m]

\* the model of the sentiment and of the summarization operation
SentimentModel == "cardiffnlp/twitter-roberta-base-sentiment-latest"
SummaryModel == "facebook/bart-large-cnn"

\* makeRequest's modelName, by the operation that calls it
TargetModel(o, r) ==
    CASE o = "sentiment" -> SentimentModel
      [] o = "summarize" -> SummaryModel
      [] OTHER -> r.Model

\* the log of an iteration of the loop, first attempt and retries alike
LogEveryAttempt(lines, a, m) == Append(lines, LogModel("Retrying request", a, m))

\* if attempt > 0 { ...; s.logger.Info(ctx, "Retrying request", ...) }
LogRetry(lines, a, m) ==
    IF a > 0 THEN Append(lines, LogModel("Retrying request", a, m)) ELSE lines

\* a request body with nothing left to read
Drained == HFRequest(<<>>, NoParams, NoParams)

\* the request built before the loop, handed to Do again and again: its
\* body is consumed by the first attempt
NewRequestOnce(payload, m, a) ==
    [method |-> "POST", url |-> m, body |-> IF a = 0 THEN payload ELSE Drained,
     Authorization |-> "Bearer", ContentType |-> "application/json",
     UserAgent |-> "go-ai-huggingface/1.0"]

\* http.NewRequestWithContext(ctx, "POST", url, bytes.NewBuffer(requestBody))
\* and the three headers, built anew in every iteration
NewRequest(payload, m, a) ==
    [method |-> "POST", url |-> m, body |-> payload,
     Authorization |-> "Bearer", ContentType |-> "application/json",
     UserAgent |-> "go-ai-huggingface/1.0"]

supportedModels ==
    {"gpt2", "gpt2-medium", "gpt2-large", "gpt2-xl", "microsoft/DialoGPT-medium",
     "microsoft/DialoGPT-large", SummaryModel, SentimentModel}

\* the model names ValidateModel is tried on
ModelNames == {"", "gpt2", SummaryModel, "my-org/custom"}

ModelNameEmpty == Err("model_name_empty", 0, "", "", "", NoBody)

\* a ValidateModel that enforces the list
ValidateModelEnforcing(name) ==
    IF name = "" \/ name \notin supportedModels THEN ModelNameEmpty ELSE NoErr

\* the error ValidateModel returns
ValidateModel(name) == IF name = "" THEN ModelNameEmpty ELSE NoErr

\* whether ValidateModel logs "Using unvalidated model"
WarnsUnvalidated(name) == name # "" /\ name \notin supportedModels

NoVM == [err |-> NoErr, called |-> FALSE]

-----------------------------------------------------------------------------
(* The configuration of the program *)

\* a float32, in tenths, or NaN
Float(v) == [nan |-> FALSE, tenths |-> v]
NaN == [nan |-> TRUE, tenths |-> 0]

\* a < b on float32: false when either side is NaN
FloatLess(a, b) == ~a.nan /\ ~b.nan /\ a.tenths < b.tenths

\* an environment variable: unset, text that is no number, a number, "NaN"
EnvVal(kind, num) == [kind |-> kind, num |-> num]
Unset == EnvVal("unset", 0)
NotANumber == EnvVal("text", 0)
Num(n) == EnvVal("num", n)
EnvNaN == EnvVal("nan", 0)

\* the defaults of LoadConfig
DefaultPort == 8080
DefaultRetryAttempts == 3
DefaultRetryDelay == 1
DefaultMaxTokens == 100
DefaultTemperature == Float(7)

\* the largest port Config.Validate accepts
MaxPort == 65535

getEnvAsInt(v, defaultValue) == IF v.kind = "num" THEN v.num ELSE defaultValue

\* strconv.ParseFloat parses "NaN" without error
getEnvAsFloat32(v, defaultValue) ==
    CASE v.kind = "num" -> Float(v.num)
      [] v.kind = "nan" -> NaN
      [] OTHER -> defaultValue

Config(key, port, retries, maxTokens, temperature) ==
    [APIKey |-> key, Port |-> port, RetryAttempts |-> retries,
     MaxTokens |-> maxTokens, Temperature |-> temperature]

NoConfig == Config("", 0, 0, 0, Float(0))

\* LoadConfig: [cfg, err]
LoadConfig(e) ==
    IF e.HUGGINGFACE_API_KEY = ""
    THEN [cfg |-> NoConfig,
          err |-> "HUGGINGFACE_API_KEY environment variable is required"]
    ELSE [cfg |-> Config(e.HUGGINGFACE_API_KEY,
                         getEnvAsInt(e.SERVER_PORT, DefaultPort),
                         getEnvAsInt(e.HUGGINGFACE_RETRY_ATTEMPTS, DefaultRetryAttempts),
                         getEnvAsInt(e.HUGGINGFACE_MAX_TOKENS, DefaultMaxTokens),
                         getEnvAsFloat32(e.HUGGINGFACE_TEMPERATURE, DefaultTemperature)),
          err |-> "nil"]

\* Config.Validate: the error it returns, "nil" for none
ConfigValidate(c) ==
    IF c.APIKey = "" THEN "hugging face API key is required"
    ELSE IF c.Port <= 0 \/ c.Port > MaxPort THEN "invalid server port"
    ELSE IF c.MaxTokens <= 0 THEN "max tokens must be positive"
    ELSE IF FloatLess(c.Temperature, Float(0)) \/ FloatLess(Float(10), c.Temperature)
    THEN "temperature must be between 0 and 1"
    ELSE "nil"

\* the environments the program is started in
Envs ==
    [HUGGINGFACE_API_KEY : {"", "hf_key"},
     SERVER_PORT : {Unset, Num(0), Num(MaxPort + 1)},
     HUGGINGFACE_RETRY_ATTEMPTS : {Unset, NotANumber, Num(-1), Num(0), Num(1)},
     HUGGINGFACE_MAX_TOKENS : {Unset, Num(0), Num(1)},
     HUGGINGFACE_TEMPERATURE : {Unset, Num(-1), Num(10), Num(11), EnvNaN}]

NoEnv == [HUGGINGFACE_API_KEY |-> "", SERVER_PORT |-> Unset,
          HUGGINGFACE_RETRY_ATTEMPTS |-> Unset, HUGGINGFACE_MAX_TOKENS |-> Unset,
          HUGGINGFACE_TEMPERATURE |-> Unset]

\* the configurations Validate is called on directly
AnyConfigs ==
    {Config(key, port, 0, maxTokens, temperature) :
        key \in {"", "hf_key"}, port \in {-1, 0, 1, MaxPort, MaxPort + 1},
        maxTokens \in {-1, 0, 1},
        temperature \in {Float(-1), Float(0), Float(10), Float(11), NaN}}

NotLoaded == [cfg |-> NoConfig, err |-> "not called"]
NotValidated == "not called"

-----------------------------------------------------------------------------
(* The state machine *)

\* makeRequest not yet called
InitTransport ==
    /\ attempt = 0
    /\ lastErr = NoErr
    /\ ctxErr = "nil"
    /\ timer = 0
    /\ respStatus = 0
    /\ inflight = {}
    /\ mrResult = [body |-> NoBody, err |-> NoErr]
    /\ logs = <<>>
    /\ doCalls = 0
    /\ netCalls = 0
    /\ hist = <<>>
    /\ lastBody = NoBody
    /\ waits = <<>>
    /\ cancelAt = [pc |-> "none", attempt |-> 0, doCalls |-> 0]
    /\ sent = <<>>

\* no operation of the service has returned
InitService ==
    /\ hfReq = NoHFRequest
    /\ gtResult = [resp |-> NoResp, err |-> NoErr]
    /\ asResult = [resp |-> NoSentiment, err |-> NoErr]
    /\ stResult = [resp |-> NoSummary, err |-> NoErr]

NoHTTPRequest == [endpoint |-> "none", json |-> "none", Text |-> <<>>, MaxLength |-> 0]

\* no HTTP request is being served
NoHandler ==
    /\ httpReq = NoHTTPRequest
    /\ responses = <<>>
    /\ svcCalls = 0

\* the rate limiter is not in the picture
NoRateLimiter ==
    /\ requestsPerMinute = 0
    /\ clock = 0
    /\ requests = <<>>
    /\ rlReq = <<>>
    /\ mu = 0

\* ValidateModel is not called
NoModelCheck ==
    /\ modelName = ""
    /\ vmResult = NoVM

\* the start of the program is not in the picture
NoStartup ==
    /\ env = NoEnv
    /\ loaded = NotLoaded
    /\ valid = NotValidated

\* GenerateText called on the service, with any configuration and request
Init ==
    /\ cfg \in Configs
    /\ req \in Requests
    /\ op = "generate"
    /\ arg = NoArg
    /\ upstream = "any"
    /\ pc = "gt_validate"
    /\ InitTransport
    /\ InitService
    /\ NoModelCheck
    /\ NoStartup
    /\ NoHandler
    /\ NoRateLimiter

Cancelled == ctxErr # "nil"

\* GenerateText up to the call of makeRequest
GT_Validate ==
    /\ pc = "gt_validate"
    /\ IF Validate(req) # NoErr
       THEN /\ gtResult' = [resp |-> NoResp, err |-> Validate(req)]
            /\ pc' = "done"
            /\ logs' = logs
            /\ hfReq' = hfReq
       ELSE /\ logs' = Append(logs, Log("Starting text generation", 0))
            /\ hfReq' = GenerationPayload(req)
            /\ pc' = "mr_loop"
            /\ gtResult' = gtResult
    /\ UNCHANGED <<cfg, req, attempt, lastErr, ctxErr, timer, respStatus, inflight,
                   mrResult, doCalls, netCalls, hist, lastBody, waits, cancelAt>>
    /\ UNCHANGED outerVars
    /\ UNCHANGED <<sent, sideVars>>

\* where makeRequest returns to
AfterCall(o) ==
    CASE o = "sentiment" -> "as_after"
      [] o = "summarize" -> "st_after"
      [] OTHER -> "gt_after"

\* return body, err from makeRequest
Return(body, err) ==
    /\ mrResult' = [body |-> body, err |-> err]
    /\ pc' = AfterCall(op)

\* the end of a loop iteration that goes round again (continue, or falling
\* off the end of the body): attempt++
Continue(err) ==
    /\ lastErr' = err
    /\ attempt' = attempt + 1
    /\ pc' = "mr_loop"

\* The for condition, and for attempt > 0 the entry into the select.  A
\* timer of zero delay is ready as the select is entered; when the context is
\* done as well, Go takes either case.
MR_LoopHead ==
    /\ pc = "mr_loop"
    /\ IF ~LoopCond(attempt, cfg.RetryAttempts)
       THEN /\ Return(NoBody, lastErr)
            /\ UNCHANGED <<timer, waits>>
       ELSE IF attempt = 0
       THEN /\ pc' = "mr_do"
            /\ UNCHANGED <<mrResult, timer, waits>>
       ELSE LET ready == SelectCases(Cancelled, cfg.RetryDelay = 0)
            IN IF ready = {}
               THEN /\ pc' = "mr_wait"
                    /\ timer' = cfg.RetryDelay
                    /\ UNCHANGED <<mrResult, waits>>
               ELSE \E c \in ready :
                       IF c = "ctx"
                       THEN /\ Return(NoBody, CtxError(ctxErr))
                            /\ UNCHANGED <<timer, waits>>
                       ELSE /\ pc' = "mr_do"
                            /\ waits' = Append(waits, 0)
                            /\ UNCHANGED <<mrResult, timer>>
    /\ UNCHANGED <<cfg, req, attempt, lastErr, ctxErr, respStatus, inflight, gtResult,
                   logs, doCalls, netCalls, hist, lastBody, cancelAt>>
    /\ UNCHANGED <<hfReq, outerVars>>
    /\ UNCHANGED <<sent, sideVars>>

\* A tick of time while the goroutine is blocked in the select; the tick
\* that expires the timer wakes it on the timer case.
MR_Tick ==
    /\ pc = "mr_wait"
    /\ "timer" \in SelectCases(FALSE, TRUE)
    /\ IF timer > 1
       THEN /\ timer' = timer - 1
            /\ UNCHANGED <<pc, waits>>
       ELSE /\ timer' = 0
            /\ waits' = Append(waits, cfg.RetryDelay)
            /\ pc' = "mr_do"
    /\ UNCHANGED <<cfg, req, attempt, lastErr, ctxErr, respStatus, inflight, mrResult,
                   gtResult, logs, doCalls, netCalls, hist, lastBody, cancelAt>>
    /\ UNCHANGED <<hfReq, outerVars>>
    /\ UNCHANGED <<sent, sideVars>>

\* The caller cancels the context, or its deadline passes.  A goroutine
\* blocked in the select is woken on the ctx.Done() case and returns ctx.Err().
Cancel ==
    /\ ~Cancelled
    /\ pc \notin {"done", "h_done"}
    /\ \E cause \in CtxCauses :
          /\ ctxErr' = cause
          /\ IF pc = "mr_wait" /\ "ctx" \in SelectCases(TRUE, FALSE)
             THEN Return(NoBody, CtxError(cause))
             ELSE UNCHANGED <<pc, mrResult>>
    /\ cancelAt' = [pc |-> pc, attempt |-> attempt, doCalls |-> doCalls]
    /\ UNCHANGED <<cfg, req, attempt, lastErr, timer, respStatus, inflight, gtResult,
                   logs, doCalls, netCalls, hist, lastBody, waits>>
    /\ UNCHANGED <<hfReq, outerVars>>
    /\ UNCHANGED <<sent, sideVars>>

\* The retry log line, the fresh request and the call of httpClient.Do.  With
\* the context already done Do returns its error without touching the network.
MR_Do ==
    /\ pc = "mr_do"
    /\ logs' = LogRetry(logs, attempt, TargetModel(op, req))
    /\ sent' = Append(sent, NewRequest(hfReq, TargetModel(op, req), attempt))
    /\ doCalls' = doCalls + 1
    /\ IF Cancelled
       THEN /\ Continue(HTTPRequestFailed(ctxErr))
            /\ hist' = Append(hist, [kind |-> "ctxerr", status |-> 0])
            /\ UNCHANGED <<inflight, netCalls>>
       ELSE /\ pc' = "mr_inflight"
            /\ inflight' = inflight \cup {attempt}
            /\ netCalls' = netCalls + 1
            /\ UNCHANGED <<attempt, lastErr, hist>>
    /\ UNCHANGED <<cfg, req, ctxErr, timer, respStatus, mrResult, gtResult, lastBody,
                   waits, cancelAt>>
    /\ UNCHANGED <<hfReq, outerVars>>
    /\ UNCHANGED sideVars

\* Do returns an error: a network failure, or the context done while the
\* call was in flight.
MR_DoFail ==
    /\ pc = "mr_inflight"
    /\ inflight' = inflight \ {attempt}
    /\ IF Cancelled
       THEN /\ Continue(HTTPRequestFailed(ctxErr))
            /\ hist' = Append(hist, [kind |-> "ctxerr", status |-> 0])
       ELSE /\ Continue(HTTPRequestFailed(NetCause))
            /\ hist' = Append(hist, [kind |-> "neterr", status |-> 0])
    /\ UNCHANGED <<cfg, req, ctxErr, timer, respStatus, mrResult, gtResult, logs,
                   doCalls, netCalls, lastBody, waits, cancelAt>>
    /\ UNCHANGED <<hfReq, outerVars>>
    /\ UNCHANGED <<sent, sideVars>>

\* Do returns a response: its status line and headers have arrived.
MR_DoResponse ==
    /\ pc = "mr_inflight"
    /\ ~Cancelled
    /\ \E s \in Statuses : respStatus' = s
    /\ pc' = "mr_read"
    /\ UNCHANGED <<cfg, req, attempt, lastErr, ctxErr, timer, inflight, mrResult,
                   gtResult, logs, doCalls, netCalls, hist, lastBody, waits, cancelAt>>
    /\ UNCHANGED <<hfReq, outerVars>>
    /\ UNCHANGED <<sent, sideVars>>

\* io.ReadAll fails
MR_ReadFail ==
    /\ pc = "mr_read"
    /\ inflight' = CloseBody(inflight, attempt)
    /\ Continue(ReadFailed(IF Cancelled THEN ctxErr ELSE NetCause))
    /\ hist' = Append(hist, [kind |-> "readerr", status |-> 0])
    /\ respStatus' = 0
    /\ UNCHANGED <<cfg, req, ctxErr, timer, mrResult, gtResult, logs, doCalls,
                   netCalls, lastBody, waits, cancelAt>>
    /\ UNCHANGED <<hfReq, outerVars>>
    /\ UNCHANGED <<sent, sideVars>>

\* io.ReadAll succeeds: the body is closed and the status decides
MR_ReadBody ==
    /\ pc = "mr_read"
    /\ inflight' = CloseBody(inflight, attempt)
    /\ \E body \in Answers(upstream) :
          /\ lastBody' = body
          /\ IF IsStatusOK(respStatus)
             THEN /\ Return(body, NoErr)
                  /\ UNCHANGED <<attempt, lastErr>>
             ELSE IF IsClientError(respStatus)
             THEN /\ lastErr' = APIError(respStatus, body)
                  /\ Return(NoBody, APIError(respStatus, body))
                  /\ UNCHANGED attempt
             ELSE /\ Continue(APIError(respStatus, body))
                  /\ UNCHANGED mrResult
    /\ hist' = Append(hist, [kind |-> "resp", status |-> respStatus])
    /\ respStatus' = 0
    /\ UNCHANGED <<cfg, req, ctxErr, timer, gtResult, logs, doCalls, netCalls, waits,
                   cancelAt>>
    /\ UNCHANGED <<hfReq, outerVars>>
    /\ UNCHANGED <<sent, sideVars>>

\* GenerateText after makeRequest has returned
GT_After ==
    /\ pc = "gt_after"
    /\ pc' = "done"
    /\ IF mrResult.err # NoErr
       THEN /\ logs' = Append(logs, Log("Failed to generate text", 0))
            /\ gtResult' = [resp |-> NoResp, err |-> mrResult.err]
       ELSE IF ~UnmarshalsAsResponses(mrResult.body)
       THEN /\ gtResult' = [resp |-> NoResp, err |-> ParseError]
            /\ logs' = logs
       ELSE IF Len(mrResult.body.items) = 0
       THEN /\ gtResult' = [resp |-> NoResp, err |-> NoResponseError]
            /\ logs' = logs
       ELSE /\ gtResult' = [resp |-> BuildResponse(req,
                                                   GeneratedTexts(mrResult.body.items)),
                            err |-> NoErr]
            /\ logs' = Append(logs, Log("Text generation completed", 0))
    /\ UNCHANGED <<cfg, req, attempt, lastErr, ctxErr, timer, respStatus, inflight,
                   mrResult, doCalls, netCalls, hist, lastBody, waits, cancelAt>>
    /\ UNCHANGED <<hfReq, outerVars>>
    /\ UNCHANGED <<sent, sideVars>>

\* AnalyzeSentiment up to the call of makeRequest
AS_Start ==
    /\ pc = "as_start"
    /\ logs' = Append(logs, Log("Starting sentiment analysis", 0))
    /\ hfReq' = HFRequest(arg.Text, NoParams, NoParams)
    /\ pc' = "mr_loop"
    /\ UNCHANGED <<cfg, req, attempt, lastErr, ctxErr, timer, respStatus, inflight,
                   mrResult, gtResult, doCalls, netCalls, hist, lastBody, waits,
                   cancelAt, outerVars>>
    /\ UNCHANGED <<sent, sideVars>>

\* AnalyzeSentiment after makeRequest has returned
AS_After ==
    /\ pc = "as_after"
    /\ pc' = "done"
    /\ asResult' =
          IF mrResult.err # NoErr
          THEN [resp |-> NoSentiment, err |-> mrResult.err]
          ELSE IF ~UnmarshalsAsNested(mrResult.body)
          THEN [resp |-> NoSentiment, err |-> SentimentParseError]
          ELSE IF NoSentimentResult(mrResult.body.items)
          THEN [resp |-> NoSentiment, err |-> NoSentimentError]
          ELSE [resp |-> SentimentResponse(arg.Text,
                            BestResult(mrResult.body.items[1], 1,
                                       mrResult.body.items[1][1])),
                err |-> NoErr]
    /\ UNCHANGED <<cfg, req, attempt, lastErr, ctxErr, timer, respStatus, inflight,
                   mrResult, gtResult, logs, doCalls, netCalls, hist, lastBody, waits,
                   cancelAt, hfReq, op, arg, upstream, stResult, httpReq, responses,
                   svcCalls, rlVars>>
    /\ UNCHANGED <<sent, sideVars>>

\* SummarizeText up to the call of makeRequest
ST_Start ==
    /\ pc = "st_start"
    /\ logs' = Append(logs, Log("Starting text summarization", 0))
    /\ hfReq' = HFRequest(arg.Text, SummaryParameters(arg.MaxLength), NoParams)
    /\ pc' = "mr_loop"
    /\ UNCHANGED <<cfg, req, attempt, lastErr, ctxErr, timer, respStatus, inflight,
                   mrResult, gtResult, doCalls, netCalls, hist, lastBody, waits,
                   cancelAt, outerVars>>
    /\ UNCHANGED <<sent, sideVars>>

\* SummarizeText after makeRequest has returned
ST_After ==
    /\ pc = "st_after"
    /\ pc' = "done"
    /\ stResult' =
          IF mrResult.err # NoErr
          THEN [resp |-> NoSummary, err |-> mrResult.err]
          ELSE IF ~UnmarshalsAsResponses(mrResult.body)
          THEN [resp |-> NoSummary, err |-> SummaryParseError]
          ELSE IF Len(mrResult.body.items) = 0
          THEN [resp |-> NoSummary, err |-> NoSummaryError]
          ELSE [resp |-> SummaryResponse(arg.Text, mrResult.body.items), err |-> NoErr]
    /\ UNCHANGED <<cfg, req, attempt, lastErr, ctxErr, timer, respStatus, inflight,
                   mrResult, gtResult, logs, doCalls, netCalls, hist, lastBody, waits,
                   cancelAt, hfReq, op, arg, upstream, asResult, httpReq, responses,
                   svcCalls, rlVars>>
    /\ UNCHANGED <<sent, sideVars>>

-----------------------------------------------------------------------------
(* The operations of the service against an upstream that answers *)

\* One call of an operation of the service, retries off, with the inputs and
\* upstream answers its normaliser is to be tried on.
InitNorm ==
    /\ cfg = [RetryAttempts |-> 0, RetryDelay |-> 0]
    /\ \/ /\ op = "generate"
          /\ req \in NormRequests
          /\ arg = NoArg
          /\ upstream = "generation"
          /\ pc = "gt_validate"
          /\ modelName = ""
       \/ /\ op = "generate"
          /\ req \in ParamRequests
          /\ arg = NoArg
          /\ upstream = "any"
          /\ pc = "gt_validate"
          /\ modelName = ""
       \/ /\ op = "sentiment"
          /\ req \in ParamRequests /\ req.Parameters = NoParams /\ req.MaxTokens = 1
          /\ arg = Arg(<<"a">>, 0)
          /\ upstream = "sentiment"
          /\ pc = "as_start"
          /\ modelName = ""
       \/ /\ op = "summarize"
          /\ req \in ParamRequests /\ req.Parameters = NoParams /\ req.MaxTokens = 1
          /\ arg \in SummaryArgs
          /\ upstream = "summarization"
          /\ pc = "st_start"
          /\ modelName = ""
       \/ /\ op = "validate"
          /\ req \in ParamRequests /\ req.Parameters = NoParams /\ req.MaxTokens = 1
          /\ arg = NoArg
          /\ upstream = "any"
          /\ pc = "vm_start"
          /\ modelName \in ModelNames
    /\ InitTransport
    /\ InitService
    /\ vmResult = NoVM
    /\ NoStartup
    /\ NoHandler
    /\ NoRateLimiter

\* ValidateModel(modelName), whole
VM_Validate ==
    /\ pc = "vm_start"
    /\ vmResult' = [err |-> ValidateModel(modelName), called |-> TRUE]
    /\ logs' = IF WarnsUnvalidated(modelName)
               THEN Append(logs, LogModel("Using unvalidated model", 0, modelName))
               ELSE logs
    /\ pc' = "done"
    /\ UNCHANGED <<cfg, req, attempt, lastErr, ctxErr, timer, respStatus, inflight,
                   mrResult, gtResult, doCalls, netCalls, hist, lastBody, waits,
                   cancelAt, hfReq, outerVars, sent, modelName, env, loaded, valid>>

NextNorm ==
    \/ VM_Validate
    \/ GT_Validate
    \/ AS_Start
    \/ ST_Start
    \/ MR_LoopHead
    \/ MR_Do
    \/ MR_DoResponse
    \/ MR_ReadBody
    \/ GT_After
    \/ AS_After
    \/ ST_After

SpecNorm == InitNorm /\ [][NextNorm]_vars

-----------------------------------------------------------------------------
(* The handlers of AIHandler *)

\* the service's result for the operation called
SvcResult ==
    CASE op = "sentiment" -> asResult
      [] op = "summarize" -> stResult
      [] OTHER -> gtResult

\* &model.ErrorResponse{Code: 400, Message: msg, Type: "validation_error"}
BadRequest(msg) == Err("validation_error", 400, "", "", msg, NoBody)

\* &model.ErrorResponse{Code: 500, Message: msg, Type: "service_error",
\* Details: err.Error()}
ServiceError(msg, err) == Err("service_error", 500, err.kind, "", msg, NoBody)

\* an error reply written without WriteHeader, which leaves the status at 200
HandleErrorNoHeader(errResp) == [status |-> 200, error |-> errResp]

\* handleError: w.WriteHeader(errResp.Code), then the JSON of errResp
HandleError(errResp) == [status |-> errResp.code, error |-> errResp]

\* sendJSONResponse(ctx, w, http.StatusOK, response)
SendJSONResponse(status) == [status |-> status, error |-> NoErr]

\* the Message of the handler's service_error
FailureMessage(o) ==
    CASE o = "generate" -> "Failed to generate text"
      [] o = "complete" -> "Failed to generate completion"
      [] o = "sentiment" -> "Failed to analyze sentiment"
      [] OTHER -> "Failed to summarize text"

\* the default the summarize handler gives max_length
DefaultMaxLength == 130

\* a default that replaces negative lengths only
EffectiveMaxLengthNegativeOnly(n) == IF n < 0 THEN DefaultMaxLength ELSE n

\* if req.MaxLength <= 0 { req.MaxLength = 130 }
EffectiveMaxLength(n) == IF n <= 0 THEN DefaultMaxLength ELSE n

\* where the handler enters the service
ServiceEntry(o) ==
    CASE o = "sentiment" -> "as_start"
      [] o = "summarize" -> "st_start"
      [] OTHER -> "gt_validate"

\* A handler method from its entry to its call of the service: JSON
\* decoding, input validation, the max_length default.
H_Handle ==
    /\ pc = "h_start"
    /\ LET rejected ==
             IF httpReq.json = "bad" THEN BadRequest("Invalid JSON")
             ELSE IF httpReq.endpoint \in {"generate", "complete"} THEN Validate(req)
             ELSE IF httpReq.Text = <<>> THEN BadRequest("Text is required")
             ELSE NoErr
       IN IF rejected # NoErr
          THEN /\ responses' = Append(responses, HandleError(rejected))
               /\ pc' = "h_done"
               /\ UNCHANGED <<arg, svcCalls>>
          ELSE /\ arg' = IF httpReq.endpoint = "sentiment" THEN Arg(httpReq.Text, 0)
                         ELSE IF httpReq.endpoint = "summarize"
                         THEN Arg(httpReq.Text, EffectiveMaxLength(httpReq.MaxLength))
                         ELSE arg
               /\ svcCalls' = svcCalls + 1
               /\ pc' = ServiceEntry(op)
               /\ UNCHANGED responses
    /\ UNCHANGED <<cfg, req, attempt, lastErr, ctxErr, timer, respStatus, inflight,
                   mrResult, gtResult, logs, doCalls, netCalls, hist, lastBody, waits,
                   cancelAt, hfReq, op, upstream, asResult, stResult, httpReq, rlVars>>
    /\ UNCHANGED <<sent, sideVars>>

\* A handler method after the service has returned
H_Respond ==
    /\ pc = "done"
    /\ pc' = "h_done"
    /\ responses' =
          Append(responses,
                 IF SvcResult.err # NoErr
                 THEN HandleError(ServiceError(FailureMessage(op), SvcResult.err))
                 ELSE SendJSONResponse(200))
    /\ UNCHANGED <<cfg, req, attempt, lastErr, ctxErr, timer, respStatus, inflight,
                   mrResult, gtResult, logs, doCalls, netCalls, hist, lastBody, waits,
                   cancelAt, hfReq, op, arg, upstream, asResult, stResult, httpReq,
                   svcCalls, rlVars>>
    /\ UNCHANGED <<sent, sideVars>>

\* the retry configurations the handlers are tried under
HTTPConfigs == [RetryAttempts : {-1, 0, 1}, RetryDelay : {0, 1}]

\* the AIRequest bodies posted to the generate and complete endpoints
PostedRequests ==
    [Prompt : {<<>>, <<"a">>},
     Model : {"gpt2"},
     MaxTokens : {1},
     Temperature : {5, 11},
     TopP : {9},
     Parameters : {NoParams}]

\* the request of an endpoint that does not decode an AIRequest
NoAIRequest == [Prompt |-> <<>>, Model |-> "", MaxTokens |-> 0, Temperature |-> 0,
                TopP |-> 9, Parameters |-> NoParams]

HTTPRequest(e, j, t, n) == [endpoint |-> e, json |-> j, Text |-> t, MaxLength |-> n]

\* One request to an AI endpoint arrives at its handler.
InitHTTP ==
    /\ cfg \in HTTPConfigs
    /\ op \in Ops
    /\ \/ /\ op \in {"generate", "complete"}
          /\ \/ req \in PostedRequests /\ httpReq = HTTPRequest(op, "ok", <<>>, 0)
             \/ req = NoAIRequest /\ httpReq = HTTPRequest(op, "bad", <<>>, 0)
       \/ /\ op = "sentiment"
          /\ req = NoAIRequest
          /\ \/ \E t \in {<<>>, <<"a">>} : httpReq = HTTPRequest(op, "ok", t, 0)
             \/ httpReq = HTTPRequest(op, "bad", <<>>, 0)
       \/ /\ op = "summarize"
          /\ req = NoAIRequest
          /\ \/ \E t \in {<<>>, <<"a">>}, n \in {-1, 0, 50} :
                   httpReq = HTTPRequest(op, "ok", t, n)
             \/ httpReq = HTTPRequest(op, "bad", <<>>, 0)
    /\ arg = NoArg
    /\ upstream = "mixed"
    /\ pc = "h_start"
    /\ responses = <<>>
    /\ svcCalls = 0
    /\ InitTransport
    /\ InitService
    /\ NoModelCheck
    /\ NoStartup
    /\ NoRateLimiter

NextHTTP ==
    \/ H_Handle
    \/ GT_Validate
    \/ AS_Start
    \/ ST_Start
    \/ MR_LoopHead
    \/ MR_Tick
    \/ Cancel
    \/ MR_Do
    \/ MR_DoFail
    \/ MR_DoResponse
    \/ MR_ReadFail
    \/ MR_ReadBody
    \/ GT_After
    \/ AS_After
    \/ ST_After
    \/ H_Respond

SpecHTTP == InitHTTP /\ [][NextHTTP]_vars

-----------------------------------------------------------------------------
(* The RateLimiter middleware *)

\* time.Minute, in ticks of the clock
Minute == 2

\* r.RemoteAddr of the requests: one IP address, two source ports
Addrs == {"10.0.0.1:5001", "10.0.0.1:5002"}

\* &model.ErrorResponse{Code: 429, Message: "Rate limit exceeded",
\* Type: "rate_limit_error"}
RateLimitError == Err("rate_limit_error", 429, "", "", "Rate limit exceeded", NoBody)

NoReply == [status |-> 0, error |-> NoErr]

\* a request on its way through the middleware
RLRequest(p, a, t, f, r) == [pc |-> p, addr |-> a, now |-> t, forwarded |-> f, reply |-> r]

\* the timestamps of times the loop keeps: now.Sub(t) < time.Minute
ValidTimes(times, now) == SelectSeq(times, LAMBDA t : now - t < Minute)

\* a limit test that lets one request more through
OverLimitStrict(n, limit) == n > limit

\* if len(requests[clientIP]) >= requestsPerMinute
OverLimit(n, limit) == n >= limit

\* the IP address of a RemoteAddr, which is "IP:port"
IPOf(a) == "10.0.0.1"

\* the first request comes from the first port, the ports being alike
FirstAddr == "10.0.0.1:5001"

\* A request reaches the middleware: clientIP := r.RemoteAddr and
\* now := time.Now(), both read before the mutex is asked for.
RL_Arrive(i) ==
    /\ pc = "rl"
    /\ rlReq[i].pc = "new"
    /\ i > 1 => rlReq[i - 1].pc # "new"
    /\ \E a \in (IF i = 1 THEN {FirstAddr} ELSE Addrs) :
          rlReq' = [rlReq EXCEPT ![i] = RLRequest("lock", a, clock, FALSE, NoReply)]
    /\ UNCHANGED <<cfg, req, pc, attempt, lastErr, ctxErr, timer, respStatus, inflight,
                   mrResult, gtResult, logs, doCalls, netCalls, hist, lastBody, waits,
                   cancelAt, hfReq, op, arg, upstream, asResult, stResult, httpReq,
                   responses, svcCalls, requestsPerMinute, clock, requests, mu>>
    /\ UNCHANGED <<sent, sideVars>>

\* mu.Lock()
RL_Lock(i) ==
    /\ pc = "rl"
    /\ rlReq[i].pc = "lock"
    /\ mu = 0
    /\ mu' = i
    /\ rlReq' = [rlReq EXCEPT ![i].pc = "locked"]
    /\ UNCHANGED <<cfg, req, pc, attempt, lastErr, ctxErr, timer, respStatus, inflight,
                   mrResult, gtResult, logs, doCalls, netCalls, hist, lastBody, waits,
                   cancelAt, hfReq, op, arg, upstream, asResult, stResult, httpReq,
                   responses, svcCalls, requestsPerMinute, clock, requests>>
    /\ UNCHANGED <<sent, sideVars>>

\* The critical section and what follows it: old timestamps are dropped,
\* then the request is answered 429, or recorded and handed to next.
RL_Decide(i) ==
    /\ pc = "rl"
    /\ rlReq[i].pc = "locked"
    /\ mu = i
    /\ mu' = 0
    /\ LET a == rlReq[i].addr
           kept == ValidTimes(requests[a], rlReq[i].now)
       IN IF OverLimit(Len(kept), requestsPerMinute)
          THEN /\ requests' = [requests EXCEPT ![a] = kept]
               /\ rlReq' = [rlReq EXCEPT ![i].pc = "done",
                                         ![i].reply = HandleError(RateLimitError)]
          ELSE /\ requests' = [requests EXCEPT ![a] = Append(kept, rlReq[i].now)]
               /\ rlReq' = [rlReq EXCEPT ![i].pc = "done", ![i].forwarded = TRUE]
    /\ UNCHANGED <<cfg, req, pc, attempt, lastErr, ctxErr, timer, respStatus, inflight,
                   mrResult, gtResult, logs, doCalls, netCalls, hist, lastBody, waits,
                   cancelAt, hfReq, op, arg, upstream, asResult, stResult, httpReq,
                   responses, svcCalls, requestsPerMinute, clock>>
    /\ UNCHANGED <<sent, sideVars>>

\* time passes
RL_Tick ==
    /\ pc = "rl"
    /\ clock < MaxClock
    /\ clock' = clock + 1
    /\ UNCHANGED <<cfg, req, pc, attempt, lastErr, ctxErr, timer, respStatus, inflight,
                   mrResult, gtResult, logs, doCalls, netCalls, hist, lastBody, waits,
                   cancelAt, hfReq, op, arg, upstream, asResult, stResult, httpReq,
                   responses, svcCalls, requestsPerMinute, requests, rlReq, mu>>
    /\ UNCHANGED <<sent, sideVars>>

\* The middleware as RateLimiter has just built it, and the requests to come.
InitRL ==
    /\ requestsPerMinute \in {-1} \cup 0..MaxRPM
    /\ clock = 0
    /\ requests = [a \in Addrs |-> <<>>]
    /\ rlReq = [i \in 1..NumRequests |->
                   RLRequest("new", "", 0, FALSE, NoReply)]
    /\ mu = 0
    /\ pc = "rl"
    /\ cfg = [RetryAttempts |-> 0, RetryDelay |-> 0]
    /\ req = NoAIRequest
    /\ op = "generate"
    /\ arg = NoArg
    /\ upstream = "any"
    /\ InitTransport
    /\ InitService
    /\ NoModelCheck
    /\ NoStartup
    /\ NoHandler

NextRL ==
    \/ \E i \in 1..NumRequests : RL_Arrive(i)
    \/ \E i \in 1..NumRequests : RL_Lock(i)
    \/ \E i \in 1..NumRequests : RL_Decide(i)
    \/ RL_Tick

SpecRL == InitRL /\ [][NextRL]_vars

-----------------------------------------------------------------------------
(* The start of the program, and a first call of GenerateText after it *)

\* config.LoadConfig() in main
CF_Load ==
    /\ pc = "cf_load"
    /\ loaded' = LoadConfig(env)
    /\ pc' = IF LoadConfig(env).err # "nil" THEN "cf_exit" ELSE "cf_validate"
    /\ UNCHANGED <<cfg, req, attempt, lastErr, ctxErr, timer, respStatus, inflight,
                   mrResult, gtResult, logs, doCalls, netCalls, hist, lastBody, waits,
                   cancelAt, hfReq, outerVars, sent, modelName, vmResult, env, valid>>

\* cfg.Validate() in main, or called on a Config built by hand
CF_Validate ==
    /\ pc = "cf_validate"
    /\ valid' = ConfigValidate(loaded.cfg)
    /\ pc' = IF ConfigValidate(loaded.cfg) # "nil" THEN "cf_exit" ELSE "cf_serving"
    /\ UNCHANGED <<cfg, req, attempt, lastErr, ctxErr, timer, respStatus, inflight,
                   mrResult, gtResult, logs, doCalls, netCalls, hist, lastBody, waits,
                   cancelAt, hfReq, outerVars, sent, modelName, vmResult, env, loaded>>

\* NewHuggingFaceService(&cfg.HuggingFace, ...) and a call of GenerateText
CF_Serve ==
    /\ pc = "cf_serving"
    /\ cfg' = [RetryAttempts |-> loaded.cfg.RetryAttempts,
               RetryDelay |-> DefaultRetryDelay]
    /\ pc' = "gt_validate"
    /\ UNCHANGED <<req, attempt, lastErr, ctxErr, timer, respStatus, inflight,
                   mrResult, gtResult, logs, doCalls, netCalls, hist, lastBody, waits,
                   cancelAt, hfReq, outerVars, sent, sideVars>>

\* The program starts in some environment; or Validate is handed a Config.
InitConfig ==
    /\ \/ /\ pc = "cf_load"
          /\ env \in Envs
          /\ loaded = NotLoaded
       \/ /\ pc = "cf_validate"
          /\ env = NoEnv
          /\ loaded \in [cfg : AnyConfigs, err : {"nil"}]
    /\ valid = NotValidated
    /\ cfg = [RetryAttempts |-> 0, RetryDelay |-> 0]
    /\ req \in ParamRequests /\ req.Parameters = NoParams /\ req.MaxTokens = 1
    /\ op = "generate"
    /\ arg = NoArg
    /\ upstream = "any"
    /\ InitTransport
    /\ InitService
    /\ NoModelCheck
    /\ NoHandler
    /\ NoRateLimiter

NextConfig ==
    \/ CF_Load
    \/ CF_Validate
    \/ CF_Serve
    \/ GT_Validate
    \/ MR_LoopHead
    \/ MR_Tick
    \/ MR_Do
    \/ MR_DoFail
    \/ MR_DoResponse
    \/ MR_ReadFail
    \/ MR_ReadBody
    \/ GT_After

SpecConfig == InitConfig /\ [][NextConfig]_vars

-----------------------------------------------------------------------------
(* One call of GenerateText, with failures, retries and cancellation *)

Next ==
    \/ GT_Validate
    \/ MR_LoopHead
    \/ MR_Tick
    \/ Cancel
    \/ MR_Do
    \/ MR_DoFail
    \/ MR_DoResponse
    \/ MR_ReadFail
    \/ MR_ReadBody
    \/ GT_After

Spec == Init /\ [][Next]_vars

\* Every step of the call itself is taken eventually: each attempt completes
\* or fails, and time passes.  Cancellation may never come.
Steps ==
    \/ GT_Validate
    \/ MR_LoopHead
    \/ MR_Tick
    \/ MR_Do
    \/ MR_DoFail
    \/ MR_DoResponse
    \/ MR_ReadFail
    \/ MR_ReadBody
    \/ GT_After

FairSpec == Spec /\ WF_vars(Steps)

-----------------------------------------------------------------------------
(* Properties *)

\* makeRequest has just returned
MRReturned == pc \in {"gt_after", "as_after", "st_after"}

Resp(status) == [kind |-> "resp", status |-> status]

\* every attempt so far was answered with HTTP 500
All500 == \A i \in 1..Len(hist) : hist[i] = Resp(500)

\* C1: with RetryAttempts = N >= 0, every attempt answered 500 and no
\* cancellation, makeRequest makes exactly N+1 attempts, attempt k > 0 comes
\* after k waits of at least the configured delay, and the call returns an
\* error and no body.
C1_RetryCount ==
    (cfg.RetryAttempts >= 0 /\ ~Cancelled /\ All500) =>
        /\ doCalls <= cfg.RetryAttempts + 1
        /\ \A i \in 1..Len(waits) : waits[i] >= cfg.RetryDelay
        /\ pc \in {"mr_do", "mr_inflight", "mr_read"} =>
              /\ Len(waits) = attempt
              /\ doCalls \in {attempt, attempt + 1}
        /\ MRReturned =>
              /\ doCalls = cfg.RetryAttempts + 1
              /\ Len(hist) = cfg.RetryAttempts + 1
              /\ Len(waits) = cfg.RetryAttempts
              /\ mrResult.body = NoBody
              /\ mrResult.err # NoErr

C1_Witness ==
    /\ MRReturned /\ ~Cancelled /\ All500
    /\ cfg.RetryAttempts = 2 /\ cfg.RetryDelay = 1
    /\ doCalls = 3 /\ waits = <<1, 1>>

C3_CancelDuringWait ==
    cancelAt.pc = "mr_wait" =>
        /\ pc \in {"gt_after", "done"}
        /\ mrResult.body = NoBody
        /\ mrResult.err = CtxError(ctxErr)
        /\ doCalls = cancelAt.doCalls
        /\ Len(hist) = cancelAt.doCalls

C3_Witness ==
    /\ MRReturned
    /\ cancelAt.pc = "mr_wait"
    /\ cancelAt.attempt = 1
    /\ cfg.RetryAttempts = 2

\* the errors makeRequest returns through "return nil, lastErr" once the
\* attempts are used up after failures of Do
ExhaustionAfterNetworkFailure(e) == e.kind = "http_request_failed"

\* an error that is the context's own: what "return nil, ctx.Err()" gives
CancellationSpecific(e) == e.kind = "ctx" /\ e.cause \in CtxCauses

\* C4: when the context is cancelled while an attempt is in flight, at any
\* attempt index, makeRequest returns a cancellation-specific error, not one
\* of the form returned on retry exhaustion after network failures.
C4_CancelInFlight ==
    (MRReturned /\ cancelAt.pc = "mr_inflight") =>
        /\ CancellationSpecific(mrResult.err)
        /\ ~ExhaustionAfterNetworkFailure(mrResult.err)

\* C5: once the context has been cancelled during an in-flight call or a
\* retry wait, makeRequest starts no new attempt, whatever the retry delay.
C5_NoAttemptAfterCancel ==
    cancelAt.pc \in {"mr_inflight", "mr_read", "mr_wait"} =>
        doCalls = cancelAt.doCalls

\* C6: the attempts of one call are strictly sequential: at most one
\* exchange is open, it is the current attempt's, and an attempt starts only
\* when every earlier one has been observed to the end.
C6_Sequential ==
    /\ Cardinality(inflight) <= 1
    /\ inflight \subseteq {attempt}
    /\ doCalls - Len(hist) \in {0, 1}
    /\ (doCalls - Len(hist) = 1) <=> (pc \in {"mr_inflight", "mr_read"})
    /\ (pc \in {"mr_inflight", "mr_read"}) => inflight = {attempt}

C6_Witness ==
    /\ pc = "mr_inflight"
    /\ attempt = 2
    /\ Len(hist) = 2
    /\ inflight = {2}

\* C7: whatever the upstream answers, one makeRequest call makes at most
\* RetryAttempts+1 attempts and what it returns is a body or an error.
C7_BoundedAndTerminal ==
    /\ doCalls <= cfg.RetryAttempts + 1
    /\ MRReturned => (mrResult.body # NoBody \/ mrResult.err # NoErr)

\* With RetryAttempts >= 0 the attempts stay within the budget and what
\* makeRequest returns is a body or an error.
BoundedWhenNonNegative ==
    cfg.RetryAttempts >= 0 =>
        /\ doCalls <= cfg.RetryAttempts + 1
        /\ MRReturned => (mrResult.body # NoBody \/ mrResult.err # NoErr)

\* The call always comes to an end when each of its steps is taken eventually.
Termination == <>(pc = "done")

\* With a retry delay above zero no attempt starts after a cancellation that
\* came during an in-flight call or a wait.
NoAttemptAfterCancelPositiveDelay ==
    (cfg.RetryDelay > 0 /\ cancelAt.pc \in {"mr_inflight", "mr_read", "mr_wait"}) =>
        doCalls = cancelAt.doCalls

C8_Invalid(r) ==
    \/ r.Prompt = <<>>
    \/ r.Model = ""
    \/ r.MaxTokens < 0
    \/ r.Temperature < 0
    \/ r.Temperature > 10

\* C8: for a request with an empty prompt, an empty model, negative max
\* tokens or a temperature outside [0,1], GenerateText returns a validation
\* failure and Do is never called.
C8_NoCallOnInvalid ==
    C8_Invalid(req) =>
        /\ doCalls = 0
        /\ netCalls = 0
        /\ pc \in {"gt_validate", "done"}
        /\ pc = "done" =>
              /\ gtResult.resp = NoResp
              /\ gtResult.err.kind = "validation_error"

C8_Witness ==
    /\ pc = "done"
    /\ req.Prompt # <<>> /\ req.Model = ""
    /\ gtResult.err.kind = "validation_error"
    /\ doCalls = 0

C9_Message(r) ==
    IF r.Prompt = <<>> THEN "prompt is required"
    ELSE IF r.Model = "" THEN "model is required"
    ELSE IF r.MaxTokens < 0 THEN "max_tokens must be positive"
    ELSE "temperature must be between 0 and 1"

C9_Valid(r) ==
    /\ r.Prompt # <<>>
    /\ r.Model # ""
    /\ r.MaxTokens >= 0
    /\ 0 <= r.Temperature /\ r.Temperature <= 10

\* C9: Validate returns nil exactly when prompt and model are non-empty,
\* max_tokens >= 0 and 0 <= temperature <= 1; otherwise an ErrorResponse with
\* code 400, type validation_error and the message of the first failing check
\* in the order prompt, model, max_tokens, temperature.
C9_ValidateExact ==
    pc # "gt_validate" =>
        IF C9_Valid(req)
        THEN /\ gtResult.err.kind # "validation_error"
             /\ Len(logs) > 0 /\ logs[1].msg = "Starting text generation"
        ELSE /\ pc = "done"
             /\ gtResult.err.kind = "validation_error"
             /\ gtResult.err.code = 400
             /\ gtResult.err.message = C9_Message(req)
             /\ logs = <<>>

C9_Witness ==
    /\ pc = "done"
    /\ req.Prompt # <<>> /\ req.Model # "" /\ req.MaxTokens = 0
    /\ req.Temperature = 11
    /\ gtResult.err.message = "temperature must be between 0 and 1"

\* the body carries an error or a message field
ProvidesFields(b) == b.k = "obj" /\ (b.error # Absent \/ b.message # Absent)

\* C10: the error returned on retry exhaustion or on a 4xx is that of the
\* last attempt made; for a response other than 200 it carries the status
\* code and the upstream error and message fields when the body provides them,
\* and the raw body otherwise.
C10_LastErrorDetail ==
    (MRReturned /\ mrResult.err # NoErr /\ mrResult.err.kind # "ctx" /\ Len(hist) > 0) =>
        LET last == hist[Len(hist)]
            e == mrResult.err
        IN /\ last.kind \in {"neterr", "ctxerr"} => e.kind = "http_request_failed"
           /\ last.kind = "readerr" => e.kind = "read_failed"
           /\ last.kind = "resp" =>
                 /\ e.code = last.status
                 /\ IF ProvidesFields(lastBody)
                    THEN /\ e.error = Field(lastBody.error)
                         /\ e.message = Field(lastBody.message)
                    ELSE e.raw = lastBody

-----------------------------------------------------------------------------
(* The success test of makeRequest *)

\* the attempts of the call that observed status 200
OKAttempts == {i \in 1..Len(hist) : hist[i] = Resp(200)}

\* C11: makeRequest returns a body exactly when some attempt observes status
\* 200; that attempt is the last one of the call, the bytes returned are the
\* body it read, and an attempt observing any other status, other 2xx ones
\* included, yields no body.
C11_BodyIffStatusOK ==
    /\ OKAttempts \subseteq {Len(hist)}
    /\ OKAttempts # {} => pc \in {"gt_after", "as_after", "st_after", "done"}
    /\ MRReturned =>
          /\ (mrResult.body # NoBody) <=> (OKAttempts # {})
          /\ OKAttempts # {} => mrResult = [body |-> lastBody, err |-> NoErr]

\* a 201 was answered first and counted as a failure, then a 200 whose body
\* is returned
C11_Witness ==
    /\ MRReturned
    /\ hist = <<Resp(201), Resp(200)>>
    /\ mrResult.body.k = "arr"
    /\ mrResult.body = lastBody

-----------------------------------------------------------------------------
(* Answers the normalisers cannot use *)

\* the operation of the service has returned
ServiceReturned == pc \in {"done", "h_done"} /\ svcCalls = 1

\* the call's last attempt was answered 200 with this body
AnsweredOK(body) ==
    /\ Len(hist) >= 1
    /\ hist[Len(hist)] = Resp(200)
    /\ lastBody = body

\* the body is not JSON of the shape the operation decodes
Malformed(o, body) ==
    IF o = "sentiment"
    THEN ~(body.k = "arr2" \/ (body.k = "arr" /\ body.items = <<>>))
    ELSE body.k # "arr"

\* the body decodes to an empty result: an empty array, or for sentiment an
\* empty outer or empty first inner array
EmptyResult(o, body) ==
    \/ body.k = "arr" /\ body.items = <<>>
    \/ o = "sentiment" /\ body.k = "arr2" /\ body.items[1] = <<>>

\* the errors of the operation for a malformed and for an empty answer
ParseErrorOf(o) ==
    CASE o = "sentiment" -> SentimentParseError
      [] o = "summarize" -> SummaryParseError
      [] OTHER -> ParseError
EmptyErrorOf(o) ==
    CASE o = "sentiment" -> NoSentimentError
      [] o = "summarize" -> NoSummaryError
      [] OTHER -> NoResponseError

\* C12: when the upstream answers 200 with a body the normaliser cannot use
\* (malformed JSON, an empty result array, for sentiment an empty outer or
\* first inner array), GenerateText, AnalyzeSentiment and SummarizeText each
\* return their parse or empty-result error, and no upstream attempt follows
\* the 200 in that call.
C12_UnusableBodyFails ==
    \A body \in HTTPBodies :
        (ServiceReturned /\ AnsweredOK(body)
            /\ (Malformed(op, body) \/ EmptyResult(op, body))) =>
                /\ SvcResult.err = (IF Malformed(op, body) THEN ParseErrorOf(op)
                                    ELSE EmptyErrorOf(op))
                /\ ~SvcResult.resp.ok
                /\ doCalls = Len(hist)
                /\ \A i \in 1..(Len(hist) - 1) : hist[i] # Resp(200)

\* sentiment: the first attempt is answered 200 with [[]] while a retry is
\* still allowed; the call fails with one attempt made
C12_Witness ==
    /\ ServiceReturned
    /\ op = "sentiment"
    /\ cfg.RetryAttempts = 1
    /\ hist = <<Resp(200)>>
    /\ lastBody = Body("arr2", Absent, Absent, << <<>> >>)
    /\ asResult.err = NoSentimentError
    /\ doCalls = 1

-----------------------------------------------------------------------------
(* The normalisers *)

\* GenerateText has returned a response
Generated == op = "generate" /\ pc = "done" /\ gtResult.err = NoErr /\ gtResult.resp.ok

\* the texts of the upstream elements GenerateText normalised
UpstreamTexts == GeneratedTexts(mrResult.body.items)

\* C13: in every generation result, total_tokens is the sum of prompt_tokens
\* and completion_tokens.
C13_UsageAddsUp ==
    Generated =>
        gtResult.resp.usage.total_tokens =
            gtResult.resp.usage.prompt_tokens + gtResult.resp.usage.completion_tokens

\* a result of two choices whose prompt is not a multiple of four long
C13_Witness ==
    /\ Generated
    /\ Len(gtResult.resp.choices) = 2
    /\ Len(req.Prompt) = 1
    /\ gtResult.resp.usage.total_tokens = 2
    /\ gtResult.resp.usage.completion_tokens = 2

\* the texts of the choices GenerateText returned
ChoiceTexts == [i \in 1..Len(gtResult.resp.choices) |-> gtResult.resp.choices[i].text]

RECURSIVE EstimateSum(_, _, _)
\* the sum over texts[i..] of floor((len(prompt) + len(text)) / 4)
EstimateSum(prompt, texts, i) ==
    IF i > Len(texts) THEN 0
    ELSE ((Len(prompt) + Len(texts[i])) \div 4) + EstimateSum(prompt, texts, i + 1)

\* C14 as stated: total_tokens is the sum, over the upstream elements, of
\* floor((len(prompt) + len(text the upstream returned)) / 4), and
\* prompt_tokens is floor(len(prompt) / 4).
C14_TotalFromUpstreamText ==
    Generated =>
        /\ gtResult.resp.usage.total_tokens = EstimateSum(req.Prompt, UpstreamTexts, 1)
        /\ gtResult.resp.usage.prompt_tokens = Len(req.Prompt) \div 4

\* C14: total_tokens is the sum, over the upstream elements, of
\* floor((len(prompt) + len(text of the element's choice)) / 4), the text
\* being measured after the prompt prefix has been stripped, and
\* prompt_tokens is floor(len(prompt) / 4), counted once.
C14_TotalFromChoiceText ==
    Generated =>
        /\ gtResult.resp.usage.total_tokens = EstimateSum(req.Prompt, ChoiceTexts, 1)
        /\ gtResult.resp.usage.prompt_tokens = Len(req.Prompt) \div 4

\* the upstream echoes the prompt: (1 + 3) / 4 = 1 on the upstream text,
\* (1 + 2) / 4 = 0 on the stripped one
C14_Witness ==
    /\ Generated
    /\ req.Prompt = <<"a">>
    /\ UpstreamTexts = << <<"a", "a", "b">> >>
    /\ ChoiceTexts = << <<"a", "b">> >>
    /\ gtResult.resp.usage.total_tokens = 0

\* C15: the text of a choice is the upstream text with exactly one leading
\* copy of the prompt taken off when the upstream text starts with the
\* prompt, and the upstream text unchanged otherwise.
C15_OneCopyStripped ==
    Generated =>
        /\ Len(ChoiceTexts) = Len(UpstreamTexts)
        /\ \A i \in 1..Len(UpstreamTexts) :
              IF IsPrefix(req.Prompt, UpstreamTexts[i])
              THEN req.Prompt \o ChoiceTexts[i] = UpstreamTexts[i]
              ELSE ChoiceTexts[i] = UpstreamTexts[i]

\* the upstream text repeats the prompt: one copy goes, the second stays; a
\* second element that does not start with the prompt is left alone
C15_Witness ==
    /\ Generated
    /\ req.Prompt = <<"a">>
    /\ UpstreamTexts = << <<"a", "a", "b">>, <<"b", "a">> >>
    /\ ChoiceTexts = << <<"a", "b">>, <<"b", "a">> >>

\* AnalyzeSentiment has returned a response
Analyzed == op = "sentiment" /\ pc = "done" /\ asResult.err = NoErr /\ asResult.resp.ok

\* the first inner array of the answer AnalyzeSentiment decoded
FirstInner == mrResult.body.items[1]

\* C16: AnalyzeSentiment returns the label and score of the entry of the
\* first inner array with the greatest score, the first listed among entries
\* of equal greatest score, and its confidence equals its score.
C16_MaxScoreFirstWins ==
    Analyzed =>
        LET top == CHOOSE x \in {FirstInner[i].score : i \in 1..Len(FirstInner)} :
                       \A j \in 1..Len(FirstInner) : FirstInner[j].score <= x
            first == CHOOSE i \in 1..Len(FirstInner) :
                       /\ FirstInner[i].score = top
                       /\ \A j \in 1..(i - 1) : FirstInner[j].score # top
        IN /\ asResult.resp.sentiment = FirstInner[first].label
           /\ asResult.resp.score = top
           /\ asResult.resp.confidence = asResult.resp.score
           /\ asResult.resp.text = arg.Text

\* two entries tie for the greatest score after a lower one, and a second
\* inner array with a greater score follows: the first of the two wins
C16_Witness ==
    /\ Analyzed
    /\ FirstInner = <<Sent("NEG", 10), Sent("POS", 90), Sent("NEG", 90)>>
    /\ Len(mrResult.body.items) = 2
    /\ asResult.resp.sentiment = "POS"
    /\ asResult.resp.confidence = 90

\* GenerateText has built its payload
PayloadBuilt == op = "generate" /\ hfReq # NoHFRequest

\* the values the payload carries for a key, in parameters and in options
PayloadValues(k) == {hfReq.parameters[k], hfReq.options[k]} \ {Absent}

\* the value of a key in the base set of four
BaseOfFour(r, k) ==
    CASE k = "max_new_tokens" -> ToString(r.MaxTokens)
      [] k = "temperature" -> ToString(r.Temperature)
      [] k = "top_p" -> ToString(r.TopP)
      [] k = "wait_for_model" -> "true"
      [] OTHER -> Absent

\* C17 as stated: for every key, each of the four base keys max_new_tokens,
\* temperature, top_p and wait_for_model included, the payload carries one
\* value, the caller's when the caller supplied the key and the base value
\* otherwise.
C17_OneValuePerKey ==
    PayloadBuilt =>
        \A k \in ParamKeys :
            PayloadValues(k) =
                IF req.Parameters[k] # Absent THEN {req.Parameters[k]}
                ELSE {BaseOfFour(req, k)} \ {Absent}

\* C17: the parameters of the payload are the base set max_new_tokens,
\* temperature, top_p overlaid with the caller's extras, the caller's value
\* standing for every key the caller supplied; wait_for_model: true is
\* carried in the options of the payload, which no caller parameter changes.
C17_ParametersOverlaid ==
    PayloadBuilt =>
        /\ hfReq.inputs = req.Prompt
        /\ \A k \in ParamKeys :
              hfReq.parameters[k] =
                  IF req.Parameters[k] # Absent THEN req.Parameters[k]
                  ELSE IF k = "wait_for_model" THEN Absent
                  ELSE BaseOfFour(req, k)
        /\ \A k \in ParamKeys :
              hfReq.options[k] = IF k = "wait_for_model" THEN "true" ELSE Absent

\* the caller supplies temperature, wait_for_model and an extra key
C17_Witness ==
    /\ PayloadBuilt
    /\ req.Parameters["temperature"] = "c"
    /\ req.Parameters["wait_for_model"] = "c"
    /\ req.Parameters["do_sample"] = "c"
    /\ req.Parameters["max_new_tokens"] = Absent
    /\ hfReq.parameters["temperature"] = "c"
    /\ hfReq.parameters["max_new_tokens"] = "1"
    /\ hfReq.parameters["wait_for_model"] = "c"
    /\ hfReq.options["wait_for_model"] = "true"

\* SummarizeText has returned a response
Summarized == op = "summarize" /\ pc = "done" /\ stResult.err = NoErr /\ stResult.resp.ok

\* SummarizeText has returned, with a response or an error
SummarizeReturned == op = "summarize" /\ pc = "done"

\* C18: SummarizeText takes the summary from the first element of the
\* upstream array and from no other, fails when the array is empty, and
\* returns the original text unchanged.
C18_FirstElementOnly ==
    /\ Summarized =>
          /\ Len(mrResult.body.items) >= 1
          /\ stResult.resp.summary = mrResult.body.items[1].summary_text
          /\ stResult.resp.original_text = arg.Text
    /\ (SummarizeReturned /\ hist = <<Resp(200)>> /\ mrResult.body.k = "arr"
          /\ mrResult.body.items = <<>>) =>
             stResult = [resp |-> NoSummary, err |-> NoSummaryError]

\* two summaries come back and the first is the one returned
C18_Witness ==
    /\ Summarized
    /\ arg.Text = <<"a", "b">>
    /\ mrResult.body.items = <<Summ(<<"b">>), Summ(<<"a", "a">>)>>
    /\ stResult.resp.summary = <<"b">>
    /\ stResult.resp.original_text = <<"a", "b">>

-----------------------------------------------------------------------------
(* The handlers *)

\* the handler method has returned
Handled == pc = "h_done"

\* the request's JSON does not decode, or its input is not valid
BadInput ==
    \/ httpReq.json = "bad"
    \/ /\ httpReq.endpoint \in {"generate", "complete"}
       /\ \/ req.Prompt = <<>>
          \/ req.Model = ""
          \/ req.MaxTokens < 0
          \/ req.Temperature < 0
          \/ req.Temperature > 10
    \/ /\ httpReq.endpoint \in {"sentiment", "summarize"}
       /\ httpReq.Text = <<>>

\* C19: a request to an AI endpoint gets exactly one response: 400 of type
\* validation_error when decoding or validation fails, the service then never
\* called; 500 of type service_error when the service returns an error; 200
\* otherwise; and the status of an error response is the code of its body.
C19_OneResponse ==
    /\ Len(responses) = (IF Handled THEN 1 ELSE 0)
    /\ svcCalls <= 1
    /\ BadInput => svcCalls = 0 /\ doCalls = 0
    /\ Handled =>
          LET r == responses[1]
          IN /\ IF BadInput
                THEN r.status = 400 /\ r.error.kind = "validation_error"
                ELSE /\ svcCalls = 1
                     /\ IF SvcResult.err # NoErr
                        THEN r.status = 500 /\ r.error.kind = "service_error"
                        ELSE r.status = 200 /\ r.error = NoErr
             /\ r.error # NoErr => r.status = r.error.code

\* a summarize request whose upstream call failed twice is answered 500
C19_Witness ==
    /\ Handled
    /\ httpReq.endpoint = "summarize"
    /\ doCalls = 2
    /\ responses = <<[status |-> 500,
                      error |-> ServiceError("Failed to summarize text", stResult.err)]>>
    /\ stResult.err.kind = "api_error"

-----------------------------------------------------------------------------
(* The rate limiter *)

\* the requests of a client the middleware handed to next, with a recorded
\* timestamp in the one-minute window that starts at w
ForwardedIn(a, w) ==
    {i \in 1..NumRequests :
        /\ rlReq[i].forwarded
        /\ rlReq[i].addr = a
        /\ rlReq[i].now >= w
        /\ rlReq[i].now < w + Minute}

\* C20: under any interleaving of concurrent requests of one client, at most
\* requestsPerMinute of the requests forwarded have recorded timestamps in
\* any one-minute window; a request beyond that is answered 429 of type
\* rate_limit_error and is not forwarded.
C20_WindowLimit ==
    /\ \A a \in Addrs, w \in 0..MaxClock :
          Cardinality(ForwardedIn(a, w)) <= (IF requestsPerMinute > 0
                                             THEN requestsPerMinute ELSE 0)
    /\ \A i \in 1..NumRequests :
          /\ rlReq[i].pc = "done" =>
                (rlReq[i].forwarded <=> rlReq[i].reply = NoReply)
          /\ rlReq[i].reply # NoReply =>
                /\ rlReq[i].reply = [status |-> 429, error |-> RateLimitError]
                /\ ~rlReq[i].forwarded

RECURSIVE SumOver(_, _)
\* the sum of f over the set S
SumOver(f, S) ==
    IF S = {} THEN 0
    ELSE LET x == CHOOSE y \in S : TRUE IN f[x] + SumOver(f, S \ {x})

\* the timestamps the limiter holds against an IP address, over all its keys
HeldAgainst(ip) ==
    SumOver([a \in Addrs |-> Len(requests[a])], {a \in Addrs : IPOf(a) = ip})

\* C21: rate limiting is per client IP: the requests of one IP address,
\* whatever their source port, draw on one budget of requestsPerMinute, so
\* the limiter never holds more than that many timestamps against one IP.
C21_SharedBudgetPerIP ==
    \A ip \in {IPOf(a) : a \in Addrs} :
        HeldAgainst(ip) <= (IF requestsPerMinute > 0 THEN requestsPerMinute ELSE 0)

\* C22: the waits between the attempts of one makeRequest call back off
\* exponentially: each wait is strictly longer than the wait before it, and
\* consecutive waits grow by one constant factor.
C22_ExponentialBackoff ==
    /\ \A k \in 1..(Len(waits) - 1) : waits[k + 1] > waits[k]
    /\ \A k \in 1..(Len(waits) - 2) :
           waits[k + 2] * waits[k] = waits[k + 1] * waits[k + 1]

-----------------------------------------------------------------------------
(* The configuration *)

\* LoadConfig and Config.Validate have both accepted
Accepted == loaded.err = "nil" /\ valid = "nil"

\* C23: a configuration accepted at the start of the program has a retry
\* count of zero or more, and makeRequest under it makes at least one attempt
\* and returns a body or an error.
C23_AcceptedRetryCount ==
    Accepted =>
        /\ loaded.cfg.RetryAttempts >= 0
        /\ MRReturned =>
              /\ doCalls >= 1
              /\ mrResult.body # NoBody \/ mrResult.err # NoErr

\* what Validate is to return for a configuration, by the four checks in order
Verdict(c) ==
    IF c.APIKey = "" THEN "hugging face API key is required"
    ELSE IF ~(1 <= c.Port /\ c.Port <= MaxPort) THEN "invalid server port"
    ELSE IF ~(c.MaxTokens > 0) THEN "max tokens must be positive"
    ELSE IF ~(~c.Temperature.nan /\ 0 <= c.Temperature.tenths
                                 /\ c.Temperature.tenths <= 10)
    THEN "temperature must be between 0 and 1"
    ELSE "nil"

\* C24: Config.Validate returns nil exactly when the API key is not empty,
\* the port is within 1..65535, max tokens is positive and the temperature is
\* within 0..1; otherwise the error of the first check that fails, in the
\* order key, port, max tokens, temperature.
C24_ValidateVerdict ==
    valid # NotValidated => valid = Verdict(loaded.cfg)

\* Validate gives the verdict of the four checks on every configuration whose
\* temperature is a number
VerdictOnNumbers ==
    (valid # NotValidated /\ ~loaded.cfg.Temperature.nan) => valid = Verdict(loaded.cfg)

-----------------------------------------------------------------------------
(* ValidateModel *)

\* ValidateModel has returned
ValidateReturned == op = "validate" /\ pc = "done"

\* the warnings of ValidateModel in the log
WarnLines == SelectSeq(logs, LAMBDA l : l.msg = "Using unvalidated model")

\* GenerateText does not go through ValidateModel, and what it returns is
\* settled by the request and the upstream answer whatever the model is called
GenerationIgnoresList ==
    op = "generate" =>
        /\ ~vmResult.called
        /\ WarnLines = <<>>
        /\ pc = "done" =>
              /\ gtResult.err = NoErr <=>
                    /\ hist = <<Resp(200)>>
                    /\ mrResult.body.k = "arr"
                    /\ mrResult.body.items # <<>>
              /\ gtResult.err = NoErr =>
                    gtResult.resp = BuildResponse([req EXCEPT !.Model = "gpt2"],
                                                  GeneratedTexts(mrResult.body.items))

\* C25 as stated: ValidateModel returns success for every model name and
\* logs a warning exactly when the name is not in the allow-list; the outcome
\* of a generation does not depend on the allow-list.
C25_NeverRejects ==
    /\ ValidateReturned =>
          /\ vmResult.err = NoErr
          /\ Len(WarnLines) = (IF modelName \notin supportedModels THEN 1 ELSE 0)
    /\ GenerationIgnoresList

\* C25: ValidateModel rejects the empty model name and no other; for a name
\* that is not empty it returns success, with one warning exactly when the
\* name is not in the allow-list; the outcome of a generation does not depend
\* on the allow-list.
C25_RejectsOnlyEmpty ==
    /\ ValidateReturned =>
          /\ vmResult.called
          /\ vmResult.err = (IF modelName = "" THEN ModelNameEmpty ELSE NoErr)
          /\ WarnLines = (IF modelName # "" /\ modelName \notin supportedModels
                          THEN <<LogModel("Using unvalidated model", 0, modelName)>>
                          ELSE <<>>)
    /\ GenerationIgnoresList

\* a name outside the list is let through with a warning
C25_Witness ==
    /\ ValidateReturned
    /\ modelName = "my-org/custom"
    /\ vmResult = [err |-> NoErr, called |-> TRUE]
    /\ Len(WarnLines) = 1

\* a generation under a model outside the list returns its choices
UnlistedGeneration ==
    /\ op = "generate" /\ pc = "done"
    /\ req.Model = "my-org/custom"
    /\ gtResult.err = NoErr
    /\ Len(gtResult.resp.choices) = 2

-----------------------------------------------------------------------------
(* The retry log line and the request of an attempt *)

\* the "Retrying request" lines in the log
RetryLines == SelectSeq(logs, LAMBDA l : l.msg = "Retrying request")

\* the number of retries started so far: every attempt but the first
RetriesStarted == IF doCalls > 0 THEN doCalls - 1 ELSE 0

\* C26: one "Retrying request" line is logged per retry started, naming the
\* attempt (1, 2, ...) and the target model, after the wait of that retry
\* has run out; the first attempt logs none, an answer logs none, and a wait
\* cut short by cancellation logs none.
C26_OneLinePerRetry ==
    /\ RetryLines = [k \in 1..RetriesStarted |->
                        LogModel("Retrying request", k, TargetModel(op, req))]
    /\ Len(RetryLines) <= Len(waits)
    /\ Len(waits) <= Len(RetryLines) + 1
    /\ (MRReturned /\ mrResult.err.kind = "ctx") => Len(RetryLines) = Len(waits)

\* two retries were logged and the third attempt was answered 200
C26_Witness ==
    /\ pc = "done"
    /\ gtResult.err = NoErr
    /\ hist = <<Resp(500), Resp(500), Resp(200)>>
    /\ RetryLines = <<LogModel("Retrying request", 1, "gpt2"),
                      LogModel("Retrying request", 2, "gpt2")>>

\* a wait was cut short by cancellation after one retry had been logged
CancelledWaitLogsNothing ==
    /\ MRReturned
    /\ mrResult.err.kind = "ctx"
    /\ cancelAt.pc = "mr_wait"
    /\ doCalls = 2
    /\ Len(RetryLines) = 1

\* C27: every attempt hands httpClient.Do a request built for that attempt:
\* a POST to the URL of the target model whose body is the whole serialized
\* payload, with the bearer authorization, the JSON content type and the
\* user agent; no attempt sends an empty or partly read body.
C27_FreshRequestPerAttempt ==
    /\ Len(sent) = doCalls
    /\ \A k \in 1..Len(sent) :
          /\ sent[k].method = "POST"
          /\ sent[k].url = TargetModel(op, req)
          /\ sent[k].body = hfReq
          /\ sent[k].body # Drained
          /\ sent[k].Authorization = "Bearer"
          /\ sent[k].ContentType = "application/json"
          /\ sent[k].UserAgent = "go-ai-huggingface/1.0"
          /\ sent[k] = sent[1]

\* the third attempt of a call carries the payload of the first
C27_Witness ==
    /\ doCalls = 3
    /\ Len(sent) = 3
    /\ hist = <<Resp(500), Resp(500)>>
    /\ sent[3].body = GenerationPayload(req)
    /\ sent[3].body.inputs # <<>>

-----------------------------------------------------------------------------
(* The summarize handler *)

\* C28: the summarize handler never calls SummarizeText with an empty text,
\* so the compression of a summary never has a zero denominator, and it
\* replaces a max_length of zero or less by 130 before it calls the service.
C28_SummarizeInputs ==
    httpReq.endpoint = "summarize" =>
        /\ svcCalls = 0 => arg = NoArg /\ stResult.resp = NoSummary
        /\ svcCalls > 0 =>
              /\ arg.Text = httpReq.Text
              /\ arg.Text # <<>>
              /\ arg.MaxLength = (IF httpReq.MaxLength <= 0 THEN DefaultMaxLength
                                  ELSE httpReq.MaxLength)
              /\ arg.MaxLength > 0
        /\ stResult.resp # NoSummary =>
              /\ stResult.resp.compression[2] = Len(httpReq.Text)
              /\ stResult.resp.compression[2] > 0
        /\ hfReq # NoHFRequest =>
              hfReq = HFRequest(httpReq.Text, SummaryParameters(arg.MaxLength), NoParams)

\* max_length 0 was posted, the service was called with 130 and a summary
\* came back
C28_Witness ==
    /\ Handled
    /\ httpReq = HTTPRequest("summarize", "ok", <<"a">>, 0)
    /\ arg = Arg(<<"a">>, DefaultMaxLength)
    /\ responses = <<SendJSONResponse(200)>>
    /\ stResult.resp.compression = <<1, 1>>

-----------------------------------------------------------------------------
(* The completion count *)

\* C29: completion_tokens is never negative in a generation result, whatever
\* the prompt and the upstream texts: a result has at least one choice, and
\* each choice counts at least the tokens of the prompt.
C29_CompletionNonNegative ==
    Generated =>
        /\ Len(gtResult.resp.choices) >= 1
        /\ gtResult.resp.usage.completion_tokens >= 0
        /\ gtResult.resp.usage.total_tokens >= gtResult.resp.usage.prompt_tokens

\* a prompt of one token and a single empty text: the completion count is 0
C29_Witness ==
    /\ Generated
    /\ Len(req.Prompt) = 4
    /\ UpstreamTexts = << <<>> >>
    /\ gtResult.resp.usage.prompt_tokens = 1
    /\ gtResult.resp.usage.total_tokens = 1
    /\ gtResult.resp.usage.completion_tokens = 0

\* what a request leaving the critical section has done to the lists: an
\* admitted request has added its timestamp and nothing else to the
\* timestamps kept, a rejected one has added nothing, and nothing is admitted
\* under a limit of zero or less
DecideEffect ==
    \A i \in 1..NumRequests :
        (rlReq[i].pc = "locked" /\ rlReq'[i].pc = "done") =>
            LET a == rlReq[i].addr
                kept == ValidTimes(requests[a], rlReq[i].now)
            IN /\ rlReq'[i].forwarded =>
                     /\ requests'[a] = Append(kept, rlReq[i].now)
                     /\ Len(requests'[a]) <= Len(requests[a]) + 1
               /\ ~rlReq'[i].forwarded =>
                     /\ requests'[a] = kept
                     /\ Len(requests'[a]) <= Len(requests[a])
                     /\ rlReq'[i].reply.status = 429
               /\ requestsPerMinute <= 0 => ~rlReq'[i].forwarded
               /\ \A b \in Addrs \ {a} : requests'[b] = requests[b]

\* C30: the list of timestamps stored for a client is never longer than
\* max(requestsPerMinute, 0); a rejected request adds no timestamp, an
\* admitted request adds exactly one, and with requestsPerMinute <= 0 every
\* request is rejected.
C30_StoredListBounded ==
    /\ [](\A a \in Addrs :
             Len(requests[a]) <= (IF requestsPerMinute > 0 THEN requestsPerMinute
                                  ELSE 0))
    /\ [](requestsPerMinute <= 0 =>
             \A i \in 1..NumRequests :
                 ~rlReq[i].forwarded /\ (rlReq[i].pc = "done" => rlReq[i].reply.status = 429))
    /\ [][DecideEffect]_vars

\* the list of a client is full, and a third request of that client, arriving
\* within the minute, was rejected and left it as it was
C30_Witness ==
    /\ requestsPerMinute = 2
    /\ requests[FirstAddr] = <<0, 0>>
    /\ \E i \in 1..NumRequests :
          /\ rlReq[i].pc = "done"
          /\ rlReq[i].addr = FirstAddr
          /\ rlReq[i].now = 1
          /\ rlReq[i].reply = [status |-> 429, error |-> RateLimitError]

====
